---- MODULE Spec2Model ----
(***************************************************************************)
(* A model of the UN-votes alignment engine of src/main.py: load_data,     *)
(* filter_time_period, compute_alignment, find_top_allies_and_enemies and  *)
(* analyze_alignment_shift.                                                *)
(*                                                                         *)
(* A DataFrame is a sequence of rows; a row carries its index label (idx), *)
(* its 'Date' and its vote for every entity column.  A Python dict is the  *)
(* sequence of its items <<key, value>> in insertion order.  A float       *)
(* quotient of two small counts is the fraction <<num, den>> in lowest     *)
(* terms, so that equality and order of the values are those of the        *)
(* quotients; the absent fraction (Python None) is the empty sequence.     *)
(***************************************************************************)
EXTENDS Integers, Sequences, FiniteSets, TLC

(***************************************************************************)
(* Bounds of the explored inputs.                                          *)
(***************************************************************************)
\* rows of a table whose votes range over every combination
MaxRows == 2
\* rows and last calendar day of a table whose dates range freely
MaxDateRows == 3
MaxDay == 2
\* last day of a table that holds at most one resolution per day
MaxSpan == 1
\* largest min_votes and top_n a caller passes
MaxMinVotes == 2
MaxTopN == 3
\* largest comparable-vote count of a hand-made alignment result
MaxVotes == 2

(***************************************************************************)
(* Program constants.                                                      *)
(***************************************************************************)
\* df.columns.tolist()[11:] : the number of leading metadata columns
NumMeta == 11
\* Resolution of a Timestamp relative to a calendar day.  A day is an even
\* number of nanoseconds, so halving a difference of whole days is exact;
\* two ticks per day keep exactly that.
TicksPerDay == 2

\* a missing vote (pandas NaN)
NaN == "nan"
\* Python's None: where a fraction is expected, and where a name is expected
NoFraction == << >>
None == "None"
VoteValues == {"Y", "N"}

\* the metadata columns of the CSV, 'Date' among them, 'token' the last
MetaColumns ==
  <<"m1", "Date", "m3", "m4", "m5", "m6", "m7", "m8", "m9", "m10", "token">>
EntityNames == <<"A", "B", "C">>

Range(s) == {s[i] : i \in DOMAIN s}

(***************************************************************************)
(* Arithmetic on quotients.                                                *)
(***************************************************************************)
Abs(x) == IF x < 0 THEN -x ELSE x

RECURSIVE Gcd(_, _)
Gcd(a, b) == IF b = 0 THEN a ELSE Gcd(b, a % b)

\* a / b for b > 0, as a value: the fraction in lowest terms
Quot(a, b) == LET g == Gcd(Abs(a), b) IN <<a \div g, b \div g>>

\* p - q
FSub(p, q) == Quot(p[1] * q[2] - q[1] * p[2], p[2] * q[2])
FAbs(p) == <<Abs(p[1]), p[2]>>
\* p < q, p >= q
FLess(p, q) == p[1] * q[2] < q[1] * p[2]
FGeq(p, q) == ~FLess(p, q)

(***************************************************************************)
(* Python dicts and list slices.                                           *)
(***************************************************************************)
Keys(d) == [i \in DOMAIN d |-> d[i][1]]
HasKey(d, k) == \E i \in DOMAIN d : d[i][1] = k
Get(d, k) == d[CHOOSE i \in DOMAIN d : d[i][1] = k][2]
\* d[k] += 1
DictInc(d, k) ==
  [i \in DOMAIN d |-> IF d[i][1] = k THEN <<k, d[i][2] + 1>> ELSE d[i]]

\* pd.to_datetime of a calendar day
to_datetime(day) == day * TicksPerDay

\* pd.isna
isna(v) == v = NaN

\* the Timestamp that is no time (pandas NaT): below every Timestamp
NaT == -1

(***************************************************************************)
(* load_data                                                               *)
(*                                                                         *)
(* The frame pd.read_csv returns has in 'Date' the text of the cell: a     *)
(* record that says whether pd.to_datetime parses it and, if so, to which  *)
(* calendar day.                                                           *)
(***************************************************************************)
\* pd.to_datetime(cell, errors='coerce')
to_datetime_coerce(cell) ==
  IF cell.parses THEN to_datetime(cell.day) ELSE NaT

\* df['Date'] = pd.to_datetime(df['Date'], errors='coerce')
Converted(df) ==
  [i \in DOMAIN df |->
     [idx |-> df[i].idx, Date |-> to_datetime_coerce(df[i].Date),
      votes |-> df[i].votes]]

load_data_keep_all(df) == Converted(df)

\* ... df.dropna(subset=['Date'])
load_data(df) ==
  LET HasDate(row) == row.Date # NaT
  IN  SelectSeq(Converted(df), HasDate)

(***************************************************************************)
(* filter_time_period                                                      *)
(***************************************************************************)
\* df[mask] is SelectSeq: the rows that satisfy the mask, in order
filter_time_period_from_first(df, start_date, end_date) ==
  LET start == to_datetime(start_date)
      end == to_datetime(end_date)
      first == IF df = << >> THEN 0
               ELSE CHOOSE t \in {df[i].Date : i \in DOMAIN df} :
                      \A i \in DOMAIN df : t <= df[i].Date
      InPeriod(row) == row.Date - first >= start /\ row.Date - first <= end
  IN  SelectSeq(df, InPeriod)

filter_time_period_open_end(df, start_date, end_date) ==
  LET start == to_datetime(start_date)
      end == to_datetime(end_date)
      InPeriod(row) == row.Date >= start /\ row.Date < end
  IN  SelectSeq(df, InPeriod)

filter_time_period(df, start_date, end_date) ==
  LET start == to_datetime(start_date)
      end == to_datetime(end_date)
      InPeriod(row) == row.Date >= start /\ row.Date <= end
  IN  SelectSeq(df, InPeriod)

(***************************************************************************)
(* compute_alignment                                                       *)
(***************************************************************************)
vote_columns_off10(cols) == SubSeq(cols, NumMeta, Len(cols))
vote_columns(cols) == SubSeq(cols, NumMeta + 1, Len(cols))

\* {country: 0 for country in vote_columns if country != target_country}
ZeroDict(vcols, target) ==
  LET Other(c) == c # target
      others == SelectSeq(vcols, Other)
  IN  [i \in DOMAIN others |-> <<others[i], 0>>]

\* the inner loop over the countries of one row, from column j on
RECURSIVE ScanCountriesNoSkip(_, _, _, _, _)
ScanCountriesNoSkip(row, target, vcols, j, acc) ==
  IF j > Len(vcols) THEN acc
  ELSE LET country == vcols[j]
           other_vote == row.votes[country]
       IN  IF country = target
             THEN ScanCountriesNoSkip(row, target, vcols, j + 1, acc)
             ELSE ScanCountriesNoSkip(row, target, vcols, j + 1,
                    [total |-> DictInc(acc.total, country),
                     common |-> IF other_vote = row.votes[target]
                                  THEN DictInc(acc.common, country)
                                  ELSE acc.common])

RECURSIVE ScanCountries(_, _, _, _, _)
ScanCountries(row, target, vcols, j, acc) ==
  IF j > Len(vcols) THEN acc
  ELSE LET country == vcols[j]
           other_vote == row.votes[country]
       IN  IF country = target \/ isna(other_vote)
             THEN ScanCountries(row, target, vcols, j + 1, acc)
             ELSE ScanCountries(row, target, vcols, j + 1,
                    [total |-> DictInc(acc.total, country),
                     common |-> IF other_vote = row.votes[target]
                                  THEN DictInc(acc.common, country)
                                  ELSE acc.common])

\* the outer loop over the rows, from row i on
RECURSIVE ScanRowsNoSkip(_, _, _, _, _)
ScanRowsNoSkip(df, target, vcols, i, acc) ==
  IF i > Len(df) THEN acc
  ELSE ScanRowsNoSkip(df, target, vcols, i + 1,
                      ScanCountries(df[i], target, vcols, 1, acc))

RECURSIVE ScanRows(_, _, _, _, _)
ScanRows(df, target, vcols, i, acc) ==
  IF i > Len(df) THEN acc
  ELSE IF isna(df[i].votes[target])
         THEN ScanRows(df, target, vcols, i + 1, acc)
         ELSE ScanRows(df, target, vcols, i + 1,
                       ScanCountries(df[i], target, vcols, 1, acc))

\* the final loop: percentages and vote_counts from the two tallies
PercentagesZero(acc) ==
  [i \in DOMAIN acc.common |->
     <<acc.common[i][1],
       IF acc.total[i][2] > 0
         THEN Quot(acc.common[i][2], acc.total[i][2])
         ELSE <<0, 1>>>>]

Percentages(acc) ==
  [i \in DOMAIN acc.common |->
     <<acc.common[i][1],
       IF acc.total[i][2] > 0
         THEN Quot(acc.common[i][2], acc.total[i][2])
         ELSE NoFraction>>]

VoteCounts(acc) ==
  [i \in DOMAIN acc.common |->
     <<acc.common[i][1],
       IF acc.total[i][2] > 0 THEN acc.total[i][2] ELSE 0>>]

compute_alignment(df, cols, target_country) ==
  LET vcols == vote_columns(cols)
  IN  IF target_country \notin Range(vcols)
        THEN [raised |-> TRUE]
        ELSE LET zero == ZeroDict(vcols, target_country)
                 acc == ScanRows(df, target_country, vcols, 1,
                                 [total |-> zero, common |-> zero])
             IN  [raised |-> FALSE,
                  percentages |-> Percentages(acc),
                  vote_counts |-> VoteCounts(acc)]

(***************************************************************************)
(* find_top_allies_and_enemies                                             *)
(***************************************************************************)
\* s[:j] and s[i:] with Python's treatment of negative and large indices
Clamp(i, n) == IF i < 0 THEN (IF i + n < 0 THEN 0 ELSE i + n)
               ELSE (IF i > n THEN n ELSE i)
SliceTo(s, j) == SubSeq(s, 1, Clamp(j, Len(s)))
SliceFrom(s, i) == SubSeq(s, Clamp(i, Len(s)) + 1, Len(s))
Reverse(s) == [i \in DOMAIN s |-> s[Len(s) + 1 - i]]

\* {country: pct for ... if pct is not None and vote_counts[country] >= min_votes}
ValidNoMinVotes(percentages, vote_counts, min_votes) ==
  LET Ok(item) == item[2] # NoFraction
  IN  SelectSeq(percentages, Ok)

Valid(percentages, vote_counts, min_votes) ==
  LET Ok(item) == /\ item[2] # NoFraction
                  /\ Get(vote_counts, item[1]) >= min_votes
  IN  SelectSeq(percentages, Ok)

\* sorted(items, key=lambda x: x[1], reverse=True): a stable sort, so items of
\* equal key keep their order.  InsertDesc puts x behind every item whose key
\* is not below x's.
RECURSIVE InsertDesc(_, _)
InsertDesc(s, x) ==
  IF s = << >> THEN <<x>>
  ELSE IF FLess(Head(s)[2], x[2]) THEN <<x>> \o s
       ELSE <<Head(s)>> \o InsertDesc(Tail(s), x)

RECURSIVE SortedDescFrom(_, _, _)
SortedDescFrom(items, i, acc) ==
  IF i > Len(items) THEN acc
  ELSE SortedDescFrom(items, i + 1, InsertDesc(acc, items[i]))

SortedAsc(items) == Reverse(SortedDescFrom(items, 1, << >>))
SortedDesc(items) == SortedDescFrom(items, 1, << >>)

find_top_allies_and_enemies(percentages, vote_counts, top_n, min_votes) ==
  LET valid == Valid(percentages, vote_counts, min_votes)
      sorted_countries == SortedDesc(valid)
      top_allies == SliceTo(sorted_countries, top_n)
      top_enemies == Reverse(SliceFrom(sorted_countries, -top_n))
      Names(top) == [i \in DOMAIN top |-> top[i][1]]
      Pcts(top) == [i \in DOMAIN top |-> top[i][2]]
      Votes(top) == [i \in DOMAIN top |-> Get(vote_counts, top[i][1])]
  IN  IF valid = << >>
        THEN [valid |-> valid, sorted_countries |-> << >>,
              allies |-> << >>, enemies |-> << >>,
              allies_pct |-> << >>, enemies_pct |-> << >>,
              allies_votes |-> << >>, enemies_votes |-> << >>]
        ELSE [valid |-> valid, sorted_countries |-> sorted_countries,
              allies |-> Names(top_allies), enemies |-> Names(top_enemies),
              allies_pct |-> Pcts(top_allies), enemies_pct |-> Pcts(top_enemies),
              allies_votes |-> Votes(top_allies),
              enemies_votes |-> Votes(top_enemies)]

(***************************************************************************)
(* analyze_alignment_shift                                                 *)
(***************************************************************************)
\* start + (end - start) / 2
Midpoint(start, end) == start + (end - start) \div 2

first_half_no_start(df, start_date, end_date) ==
  LET start == to_datetime(start_date)
      end == to_datetime(end_date)
      midpoint == Midpoint(start, end)
      In(row) == row.Date < midpoint
  IN  SelectSeq(df, In)

first_half_closed(df, start_date, end_date) ==
  LET start == to_datetime(start_date)
      end == to_datetime(end_date)
      midpoint == Midpoint(start, end)
      In(row) == row.Date >= start /\ row.Date <= midpoint
  IN  SelectSeq(df, In)

first_half(df, start_date, end_date) ==
  LET start == to_datetime(start_date)
      end == to_datetime(end_date)
      midpoint == Midpoint(start, end)
      In(row) == row.Date >= start /\ row.Date < midpoint
  IN  SelectSeq(df, In)

second_half(df, start_date, end_date) ==
  LET start == to_datetime(start_date)
      end == to_datetime(end_date)
      midpoint == Midpoint(start, end)
      In(row) == row.Date >= midpoint /\ row.Date <= end
  IN  SelectSeq(df, In)

\* the loop that fills shifts
ShiftsFirstOnly(first, second, min_votes) ==
  LET Ok(item) == /\ HasKey(second.percentages, item[1])
                  /\ item[2] # NoFraction
                  /\ Get(first.vote_counts, item[1]) >= min_votes
      kept == SelectSeq(first.percentages, Ok)
  IN  [i \in DOMAIN kept |->
         <<kept[i][1],
           IF Get(second.percentages, kept[i][1]) = NoFraction
             THEN FSub(<<0, 1>>, kept[i][2])
             ELSE FSub(Get(second.percentages, kept[i][1]), kept[i][2])>>]

Shifts(first, second, min_votes) ==
  LET Ok(item) == /\ HasKey(second.percentages, item[1])
                  /\ item[2] # NoFraction
                  /\ Get(second.percentages, item[1]) # NoFraction
                  /\ Get(first.vote_counts, item[1]) >= min_votes
                  /\ Get(second.vote_counts, item[1]) >= min_votes
      kept == SelectSeq(first.percentages, Ok)
  IN  [i \in DOMAIN kept |->
         <<kept[i][1], FSub(Get(second.percentages, kept[i][1]), kept[i][2])>>]

\* max(items, key=lambda x: x[1]) and min(...): the first item of largest
\* (smallest) key
MaxItem(items) ==
  items[CHOOSE i \in DOMAIN items :
          /\ \A j \in DOMAIN items : FGeq(items[i][2], items[j][2])
          /\ \A j \in 1 .. i - 1 : FLess(items[j][2], items[i][2])]
MinItem(items) ==
  items[CHOOSE i \in DOMAIN items :
          /\ \A j \in DOMAIN items : FGeq(items[j][2], items[i][2])
          /\ \A j \in 1 .. i - 1 : FLess(items[i][2], items[j][2])]

\* the choice between the largest and the smallest shift
BiggestAlwaysMax(shifts) ==
  [item |-> MaxItem(shifts), shift_direction |-> "positive"]

Biggest(shifts) ==
  LET max_shift_country == MaxItem(shifts)
      min_shift_country == MinItem(shifts)
  IN  IF FGeq(FAbs(max_shift_country[2]), FAbs(min_shift_country[2]))
        THEN [item |-> max_shift_country, shift_direction |-> "positive"]
        ELSE [item |-> min_shift_country, shift_direction |-> "negative"]

\* the locals of a call, and what it returns
analyze_alignment_shift(df, cols, target_country, start_date, end_date, min_votes) ==
  LET fh == first_half(df, start_date, end_date)
      sh == second_half(df, start_date, end_date)
      first == compute_alignment(fh, cols, target_country)
      second == compute_alignment(sh, cols, target_country)
  IN  IF first.raised \/ second.raised
        THEN [first_half |-> fh, second_half |-> sh, shifts |-> << >>,
              raised |-> TRUE]
        ELSE LET shifts == Shifts(first, second, min_votes)
                 biggest == Biggest(shifts)
                 country == biggest.item[1]
             IN  IF shifts = << >>
                   THEN [first_half |-> fh, second_half |-> sh,
                         shifts |-> shifts, raised |-> FALSE,
                         country |-> None, shift_direction |-> None,
                         shift |-> <<0, 1>>,
                         first_value |-> <<0, 1>>, second_value |-> <<0, 1>>,
                         first_votes |-> 0, second_votes |-> 0]
                   ELSE [first_half |-> fh, second_half |-> sh,
                         shifts |-> shifts, raised |-> FALSE,
                         country |-> country,
                         shift_direction |-> biggest.shift_direction,
                         shift |-> biggest.item[2],
                         first_value |-> Get(first.percentages, country),
                         second_value |-> Get(second.percentages, country),
                         first_votes |-> Get(first.vote_counts, country),
                         second_votes |-> Get(second.vote_counts, country)]

(***************************************************************************)
(* State: the table in use (its column list and its rows), an alignment    *)
(* result at hand (the two dicts compute_alignment returns), and the call  *)
(* in progress: its name, its arguments, and a record of the locals the    *)
(* properties speak of together with what the call returned.               *)
(***************************************************************************)
VARIABLES columns, df, percentages, vote_counts, op, args, ret

vars == <<columns, df, percentages, vote_counts, op, args, ret>>

EntitiesOf(cols) == Range(vote_columns(cols))
\* the names a caller may pass as target_country: every column, and a name
\* that is no column
TargetsOf(cols) == Range(cols) \cup {"ZZ"}
ColumnLists ==
  {MetaColumns \o SubSeq(EntityNames, 1, k) : k \in 0 .. Len(EntityNames)}
VoteRows(cols) == [EntitiesOf(cols) -> VoteValues \cup {NaN}]

\* a table of n rows labelled 1..n, row i on day d[i] with the votes v[i]
Table(n, d, v) ==
  [i \in 1 .. n |-> [idx |-> i, Date |-> to_datetime(d[i]), votes |-> v[i]]]

NoCall ==
  /\ op = "idle"
  /\ args = << >>
  /\ ret = << >>

\* every table of at most MaxRows rows of one day, over 0 to 3 entity columns
InitAlign ==
  /\ columns \in ColumnLists
  /\ \E n \in 0 .. MaxRows :
       \E v \in [1 .. n -> VoteRows(columns)] :
         df = Table(n, [i \in 1 .. n |-> 0], v)
  /\ percentages = << >>
  /\ vote_counts = << >>
  /\ NoCall

\* every table of at most MaxDateRows rows on the days 0..MaxDay, in any
\* order, over one entity column
InitDate ==
  /\ columns = MetaColumns \o SubSeq(EntityNames, 1, 1)
  /\ \E n \in 0 .. MaxDateRows :
       \E d \in [1 .. n -> 0 .. MaxDay], v \in [1 .. n -> VoteRows(columns)] :
         df = Table(n, d, v)
  /\ percentages = << >>
  /\ vote_counts = << >>
  /\ NoCall

\* every table that holds, for each of the days 0..MaxSpan, one resolution or
\* none, in date order, over three entity columns
InitShift ==
  /\ columns = MetaColumns \o EntityNames
  /\ \E held \in SUBSET (0 .. MaxSpan) :
       \E v \in [held -> VoteRows(columns)] :
         LET IsHeld(day) == day \in held
             days == SelectSeq([i \in 1 .. MaxSpan + 1 |-> i - 1], IsHeld)
         IN  df = Table(Len(days), days, [i \in DOMAIN days |-> v[days[i]]])
  /\ percentages = << >>
  /\ vote_counts = << >>
  /\ NoCall

\* every table that holds, for each of the days 0..MaxDay, one resolution or
\* none, in date order, over two entity columns
InitWindow ==
  /\ columns = MetaColumns \o SubSeq(EntityNames, 1, 2)
  /\ \E held \in SUBSET (0 .. MaxDay) :
       \E v \in [held -> VoteRows(columns)] :
         LET IsHeld(day) == day \in held
             days == SelectSeq([i \in 1 .. MaxDay + 1 |-> i - 1], IsHeld)
         IN  df = Table(Len(days), days, [i \in DOMAIN days |-> v[days[i]]])
  /\ percentages = << >>
  /\ vote_counts = << >>
  /\ NoCall

\* the tables of InitShift, each with the alignment result of its first
\* entity column at hand: the state of main after its call of
\* compute_alignment
InitMain ==
  /\ columns = MetaColumns \o EntityNames
  /\ \E held \in SUBSET (0 .. MaxSpan) :
       \E v \in [held -> VoteRows(columns)] :
         LET IsHeld(day) == day \in held
             days == SelectSeq([i \in 1 .. MaxSpan + 1 |-> i - 1], IsHeld)
         IN  df = Table(Len(days), days, [i \in DOMAIN days |-> v[days[i]]])
  /\ LET at_hand == compute_alignment(df, columns, EntityNames[1])
     IN  /\ percentages = at_hand.percentages
         /\ vote_counts = at_hand.vote_counts
  /\ NoCall

\* every frame as read of at most MaxDateRows rows, over one entity column:
\* the 'Date' cell of a row is the text of one of the days 0..MaxDay or a
\* text that is no date
DateCells ==
  {[parses |-> TRUE, day |-> d] : d \in 0 .. MaxDay}
    \cup {[parses |-> FALSE, day |-> 0]}

InitLoad ==
  /\ columns = MetaColumns \o SubSeq(EntityNames, 1, 1)
  /\ \E n \in 0 .. MaxDateRows :
       \E d \in [1 .. n -> DateCells], v \in [1 .. n -> VoteRows(columns)] :
         df = [i \in 1 .. n |-> [idx |-> i, Date |-> d[i], votes |-> v[i]]]
  /\ percentages = << >>
  /\ vote_counts = << >>
  /\ NoCall

\* every alignment result over the three entities, in any key order: an
\* entity compared on t <= MaxVotes votes agrees on c <= t of them
Tallies == {<<c, t>> \in (0 .. MaxVotes) \X (0 .. MaxVotes) : c <= t}
KeyOrders ==
  {o \in [1 .. Len(EntityNames) -> Range(EntityNames)] :
     \A i, j \in DOMAIN o : i # j => o[i] # o[j]}

InitRank ==
  /\ columns = MetaColumns \o EntityNames
  /\ df = << >>
  /\ \E o \in KeyOrders, t \in [Range(EntityNames) -> Tallies] :
       LET acc == [total |-> [i \in DOMAIN o |-> <<o[i], t[o[i]][2]>>],
                   common |-> [i \in DOMAIN o |-> <<o[i], t[o[i]][1]>>]]
       IN  /\ percentages = Percentages(acc)
           /\ vote_counts = VoteCounts(acc)
  /\ NoCall

Idle == op = "idle"

\* a call with dates among the days 0..last
FilterTimePeriodInPlace(last) ==
  /\ Idle
  /\ \E s \in 0 .. last, e \in 0 .. last :
       /\ args' = [start_date |-> s, end_date |-> e]
       /\ ret' = filter_time_period(df, s, e)
       /\ df' = filter_time_period(df, s, e)
  /\ op' = "filter_time_period"
  /\ UNCHANGED <<columns, percentages, vote_counts>>

FilterTimePeriod(last) ==
  /\ Idle
  /\ \E s \in 0 .. last, e \in 0 .. last :
       /\ args' = [start_date |-> s, end_date |-> e]
       /\ ret' = filter_time_period(df, s, e)
  /\ op' = "filter_time_period"
  /\ UNCHANGED <<columns, df, percentages, vote_counts>>

DoFilterTimePeriod == FilterTimePeriod(MaxDay)
DoFilterTimePeriodSpan == FilterTimePeriod(MaxSpan)

DoLoadData ==
  /\ Idle
  /\ args' = << >>
  /\ ret' = load_data(df)
  /\ op' = "load_data"
  /\ UNCHANGED <<columns, df, percentages, vote_counts>>

DoComputeAlignment ==
  /\ Idle
  /\ \E t \in TargetsOf(columns) :
       /\ args' = [target_country |-> t]
       /\ ret' = compute_alignment(df, columns, t)
  /\ op' = "compute_alignment"
  /\ UNCHANGED <<columns, df, percentages, vote_counts>>

DoFindTopAlliesAndEnemies ==
  /\ Idle
  /\ \E n \in 0 .. MaxTopN, m \in 0 .. MaxMinVotes :
       /\ args' = [top_n |-> n, min_votes |-> m]
       /\ ret' = find_top_allies_and_enemies(percentages, vote_counts, n, m)
  /\ op' = "find_top_allies_and_enemies"
  /\ UNCHANGED <<columns, df, percentages, vote_counts>>

\* a call with a target among targets and dates among the days 0..last
AnalyzeAlignmentShift(targets, last) ==
  /\ Idle
  /\ \E t \in targets, s \in 0 .. last, e \in 0 .. last,
        m \in 0 .. MaxMinVotes :
       /\ args' = [target_country |-> t, start_date |-> s, end_date |-> e,
                   min_votes |-> m]
       /\ ret' = analyze_alignment_shift(df, columns, t, s, e, m)
  /\ op' = "analyze_alignment_shift"
  /\ UNCHANGED <<columns, df, percentages, vote_counts>>

DoAnalyzeAlignmentShift ==
  AnalyzeAlignmentShift(EntitiesOf(columns) \cup {"Date", "ZZ"}, MaxDay)
DoAnalyzeAlignmentShiftSpan ==
  AnalyzeAlignmentShift(EntitiesOf(columns) \cup {"ZZ"}, MaxSpan)

\* the dashboard's shift analysis: the table is filtered to the period first
\* and the shift is computed on the filtered table
DashboardShift ==
  /\ Idle
  /\ \E t \in EntitiesOf(columns) \cup {"ZZ"}, s \in 0 .. MaxDay,
        e \in 0 .. MaxDay, m \in 0 .. MaxMinVotes :
       /\ args' = [target_country |-> t, start_date |-> s, end_date |-> e,
                   min_votes |-> m]
       /\ LET filtered_df == filter_time_period(df, s, e)
          IN  ret' = analyze_alignment_shift(filtered_df, columns, t, s, e, m)
  /\ op' = "dashboard_shift"
  /\ UNCHANGED <<columns, df, percentages, vote_counts>>

\* the caller takes the result; the next call may start
Return ==
  /\ ~Idle
  /\ op' = "idle"
  /\ args' = << >>
  /\ ret' = << >>
  /\ UNCHANGED <<columns, df, percentages, vote_counts>>

NextAlign == DoComputeAlignment \/ Return
NextDate == DoFilterTimePeriod \/ DoAnalyzeAlignmentShift \/ Return
NextShift == DoAnalyzeAlignmentShiftSpan \/ Return
NextRank == DoFindTopAlliesAndEnemies \/ Return

\* the calls main makes, in any order and number
Init == InitMain
Next ==
  \/ DoFilterTimePeriodSpan
  \/ DoComputeAlignment
  \/ DoFindTopAlliesAndEnemies
  \/ DoAnalyzeAlignmentShiftSpan
  \/ Return

Spec == Init /\ [][Next]_vars
NextWindow == DoAnalyzeAlignmentShift \/ DashboardShift \/ Return
WindowSpec == InitWindow /\ [][NextWindow]_vars
NextLoad == DoLoadData \/ Return
LoadSpec == InitLoad /\ [][NextLoad]_vars
AlignSpec == InitAlign /\ [][NextAlign]_vars
DateSpec == InitDate /\ [][NextDate]_vars
ShiftSpec == InitShift /\ [][NextShift]_vars
RankSpec == InitRank /\ [][NextRank]_vars

(***************************************************************************)
(* Properties of compute_alignment, checked under AlignSpec.               *)
(***************************************************************************)
ComputeReturned == op = "compute_alignment" /\ ~ret.raised

\* the rows of a table in which both e and x cast a vote, and those among
\* them in which the two votes are the same
Comparable(t, e, x) ==
  {i \in DOMAIN t : t[i].votes[e] # NaN /\ t[i].votes[x] # NaN}
Agreeing(t, e, x) ==
  {i \in Comparable(t, e, x) : t[i].votes[e] = t[i].votes[x]}

\* C1: compute_alignment(table, e) returns, for every other entity x and for
\* no other key, a count equal to the number of rows in which both e and x
\* voted, and a fraction equal to (rows among them with equal votes) / count
\* when the count is positive; the fraction is None exactly when the count is 0.
C1_AlignmentCountsAndFractions ==
  ComputeReturned =>
    LET e == args.target_country
        others == EntitiesOf(columns) \ {e}
    IN  /\ Range(Keys(ret.percentages)) = others
        /\ Range(Keys(ret.vote_counts)) = others
        /\ Len(ret.percentages) = Cardinality(others)
        /\ Len(ret.vote_counts) = Cardinality(others)
        /\ \A x \in others :
             LET n == Cardinality(Comparable(df, e, x))
                 a == Cardinality(Agreeing(df, e, x))
                 pct == Get(ret.percentages, x)
             IN  /\ Get(ret.vote_counts, x) = n
                 /\ (pct = NoFraction) <=> (n = 0)
                 /\ n > 0 => /\ pct[2] > 0
                             /\ pct[1] * n = a * pct[2]

\* a call that returned a fraction 1/2 on two votes for one entity and None
\* on no vote for another
C1_Witness ==
  /\ ComputeReturned
  /\ \E x, y \in EntitiesOf(columns) \ {args.target_country} :
       /\ Get(ret.vote_counts, x) = 2
       /\ Get(ret.percentages, x) = <<1, 2>>
       /\ Get(ret.vote_counts, y) = 0
       /\ Get(ret.percentages, y) = NoFraction

\* C9: compute_alignment raises, returning no maps, exactly when the target
\* is not one of the columns positioned after the first 11; a metadata column
\* is rejected although it is a column of the table.
C9_NotFoundIffNotEntityColumn ==
  op = "compute_alignment" =>
    /\ ret.raised <=>
         ~ \E i \in DOMAIN columns : i > 11 /\ columns[i] = args.target_country
    /\ ret.raised => DOMAIN ret = {"raised"}
    /\ ~ret.raised => DOMAIN ret = {"raised", "percentages", "vote_counts"}

\* the 11th column, the last metadata column, was passed and rejected
C9_Witness ==
  /\ op = "compute_alignment"
  /\ Len(columns) > 11
  /\ args.target_country = columns[11]
  /\ ret.raised

\* the table t with the row r put in after its first pos rows
InsertAt(t, pos, r) == SubSeq(t, 1, pos) \o <<r>> \o SubSeq(t, pos + 1, Len(t))
\* the table t without the rows in which e cast no vote
WithoutMissing(t, e) ==
  LET Voted(row) == row.votes[e] # NaN IN SelectSeq(t, Voted)

\* C10: a row in which the target's vote is missing contributes nothing: the
\* maps returned for the table are those returned for the table with any such
\* row added at any position, whatever the others voted in it, and those
\* returned for the table with all such rows taken out.
C10_MissingTargetVoteContributesNothing ==
  ComputeReturned =>
    LET e == args.target_country
    IN  /\ \A v \in VoteRows(columns), pos \in 0 .. Len(df) :
             v[e] = NaN =>
               LET r == [idx |-> Len(df) + 1, Date |-> to_datetime(0), votes |-> v]
               IN  compute_alignment(InsertAt(df, pos, r), columns, e) = ret
        /\ compute_alignment(WithoutMissing(df, e), columns, e) = ret

\* a call on a table with a row in which the target did not vote and another
\* entity did, and a row in which both voted
C10_Witness ==
  /\ ComputeReturned
  /\ \E i, j \in DOMAIN df, x \in EntitiesOf(columns) \ {args.target_country} :
       /\ df[i].votes[args.target_country] = NaN
       /\ df[i].votes[x] # NaN
       /\ df[j].votes[args.target_country] # NaN
       /\ df[j].votes[x] # NaN
       /\ Get(ret.vote_counts, x) = 1

(***************************************************************************)
(* Properties of filter_time_period and of the split of the period in      *)
(* analyze_alignment_shift, checked under DateSpec.                        *)
(***************************************************************************)
\* the positions of the rows of t whose key lies in [start, end]
InRange(t, start, end) == {i \in DOMAIN t : start <= t[i].Date /\ t[i].Date <= end}
\* the rows of t at the positions S, in the order of t
RowsAt(t, S, out) ==
  /\ Len(out) = Cardinality(S)
  /\ \A j \in DOMAIN out :
       \E k \in S : /\ Cardinality({i \in S : i <= k}) = j
                    /\ out[j] = t[k]
Holds(t, row) == \E j \in DOMAIN t : t[j] = row

\* C8: filter_time_period(table, start, end) returns exactly the rows whose
\* key k satisfies start <= k <= end, in their original order; a row at start
\* or at end is included, a row one day before start or after end is not,
\* and the result is empty when start > end.
C8_FilterKeepsExactlyTheClosedInterval ==
  op = "filter_time_period" =>
    LET start == to_datetime(args.start_date)
        end == to_datetime(args.end_date)
    IN  /\ RowsAt(df, InRange(df, start, end), ret)
        /\ \A i \in DOMAIN df :
             /\ df[i].Date \in {start, end} /\ start <= end => Holds(ret, df[i])
             /\ df[i].Date = to_datetime(args.start_date - 1) => ~Holds(ret, df[i])
             /\ df[i].Date = to_datetime(args.end_date + 1) => ~Holds(ret, df[i])
        /\ args.start_date > args.end_date => ret = << >>

\* a call that kept a row at start and a row at end, and left out a row of
\* the day after end that stands between them in the table
C8_Witness ==
  /\ op = "filter_time_period"
  /\ args.start_date < args.end_date
  /\ Len(df) = 3
  /\ df[1].Date = to_datetime(args.end_date)
  /\ df[2].Date = to_datetime(args.end_date + 1)
  /\ df[3].Date = to_datetime(args.start_date)
  /\ ret = <<df[1], df[3]>>

\* C3: with midpoint = start + (end - start)/2, every row whose key k lies in
\* [start, end] is in exactly one half, the first if k < midpoint and the
\* second if k >= midpoint; a row outside [start, end] is in neither; each half
\* holds rows of the table only, each once.  (k < midpoint is 2k < start + end.)
C3_HalvesPartitionThePeriod ==
  op = "analyze_alignment_shift" =>
    LET start == to_datetime(args.start_date)
        end == to_datetime(args.end_date)
        InFirst(i) == Holds(ret.first_half, df[i])
        InSecond(i) == Holds(ret.second_half, df[i])
    IN  /\ \A i \in DOMAIN df :
             IF i \in InRange(df, start, end)
               THEN /\ InFirst(i) <=> 2 * df[i].Date < start + end
                    /\ InSecond(i) <=> 2 * df[i].Date >= start + end
               ELSE ~InFirst(i) /\ ~InSecond(i)
        /\ Len(ret.first_half) + Len(ret.second_half)
             = Cardinality(InRange(df, start, end))
        /\ \A j \in DOMAIN ret.first_half : Holds(df, ret.first_half[j])
        /\ \A j \in DOMAIN ret.second_half : Holds(df, ret.second_half[j])

\* a call whose period has a row before the midpoint (in the first half only)
\* and a row exactly at the midpoint (in the second half only)
C3_Witness ==
  /\ op = "analyze_alignment_shift"
  /\ args.start_date < args.end_date
  /\ \E i, j \in DOMAIN df :
       /\ 2 * df[i].Date = to_datetime(args.start_date) + to_datetime(args.end_date)
       /\ Holds(ret.second_half, df[i]) /\ ~Holds(ret.first_half, df[i])
       /\ df[j].Date = to_datetime(args.start_date)
       /\ Holds(ret.first_half, df[j]) /\ ~Holds(ret.second_half, df[j])

(***************************************************************************)
(* Properties of find_top_allies_and_enemies, checked under RankSpec.      *)
(***************************************************************************)
FindTopReturned == op = "find_top_allies_and_enemies"

\* the entities with a fraction and with at least min_votes comparable votes
Qualifying(m) ==
  {x \in Range(Keys(percentages)) :
     Get(percentages, x) # NoFraction /\ Get(vote_counts, x) >= m}
Min(a, b) == IF a < b THEN a ELSE b
NonIncreasing(pcts) ==
  \A i, j \in DOMAIN pcts : i < j => ~FLess(pcts[i], pcts[j])
NonDecreasing(pcts) ==
  \A i, j \in DOMAIN pcts : i < j => ~FLess(pcts[j], pcts[i])
Distinct(names) ==
  \A i, j \in DOMAIN names : i # j => names[i] # names[j]
\* sorted is the qualifying entities, each once, by fraction descending
SortedQualifying(sorted, m) ==
  /\ Len(sorted) = Cardinality(Qualifying(m))
  /\ Range(Keys(sorted)) = Qualifying(m)
  /\ \A i \in DOMAIN sorted : sorted[i][2] = Get(percentages, sorted[i][1])
  /\ NonIncreasing([i \in DOMAIN sorted |-> sorted[i][2]])

\* C5: the allies list is the first min(top_n, q) entries of the qualifying
\* entities sorted by fraction descending: its fractions are non-increasing,
\* no qualifying entity outside it has a strictly higher fraction than one
\* inside it, and allies_pct and allies_votes hold the values of the entity at
\* the same index.
C5_AlliesAreTheTopOfTheDescendingOrder ==
  FindTopReturned =>
    LET q == Qualifying(args.min_votes)
        n == Min(args.top_n, Cardinality(q))
    IN  /\ SortedQualifying(ret.sorted_countries, args.min_votes)
        /\ ret.allies = Keys(SubSeq(ret.sorted_countries, 1, n))
        /\ Len(ret.allies) = n /\ Len(ret.allies_pct) = n
        /\ Len(ret.allies_votes) = n
        /\ Distinct(ret.allies)
        /\ Range(ret.allies) \subseteq q
        /\ NonIncreasing(ret.allies_pct)
        /\ \A i \in 1 .. n :
             /\ ret.allies_pct[i] = Get(percentages, ret.allies[i])
             /\ ret.allies_votes[i] = Get(vote_counts, ret.allies[i])
             /\ \A x \in q \ Range(ret.allies) :
                  ~FLess(ret.allies_pct[i], Get(percentages, x))

\* a call with top_n = 2 on three qualifying entities of three different
\* fractions, the lowest one first in the dict
C5_Witness ==
  /\ FindTopReturned
  /\ args.top_n = 2
  /\ Cardinality(Qualifying(args.min_votes)) = 3
  /\ Len(ret.allies) = 2
  /\ FLess(ret.allies_pct[2], ret.allies_pct[1])
  /\ FLess(percentages[1][2], ret.allies_pct[2])

\* C4: the enemies list is the last min(top_n, q) entries of the descending
\* sequence of the qualifying entities, in reverse order (lowest fraction
\* first), entities also in the allies list included.  (The code departs from
\* this for top_n = 0, where sorted_countries[-0:] is the whole sequence.)
C4_EnemiesAreTheBottomOfTheDescendingOrder ==
  FindTopReturned =>
    LET q == Cardinality(Qualifying(args.min_votes))
        n == Min(args.top_n, q)
        tail == SubSeq(ret.sorted_countries, q - n + 1, q)
    IN  /\ SortedQualifying(ret.sorted_countries, args.min_votes)
        /\ ret.enemies = Reverse(Keys(tail))
        /\ Len(ret.enemies) = n
        /\ NonDecreasing(ret.enemies_pct)

\* C6: every entity in the allies or the enemies list has a fraction and a
\* count >= min_votes; when no entity has both, the six lists are empty.
C6_OnlyQualifyingEntitiesAreRanked ==
  FindTopReturned =>
    /\ \A x \in Range(ret.allies) \cup Range(ret.enemies) :
         /\ HasKey(percentages, x)
         /\ Get(percentages, x) # NoFraction
         /\ Get(vote_counts, x) >= args.min_votes
    /\ Qualifying(args.min_votes) = {} =>
         /\ ret.allies = << >> /\ ret.enemies = << >>
         /\ ret.allies_pct = << >> /\ ret.enemies_pct = << >>
         /\ ret.allies_votes = << >> /\ ret.enemies_votes = << >>

\* a call that ranked one entity and left out another that has a fraction
\* but fewer than min_votes comparable votes, with room left in both lists
C6_Witness ==
  /\ FindTopReturned
  /\ args.top_n = 3
  /\ ret.allies # << >>
  /\ \E x \in Range(Keys(percentages)) :
       /\ Get(percentages, x) # NoFraction
       /\ Get(vote_counts, x) < args.min_votes
       /\ x \notin Range(ret.allies) \cup Range(ret.enemies)

(***************************************************************************)
(* Properties of the selection in analyze_alignment_shift, checked under   *)
(* ShiftSpec.                                                              *)
(***************************************************************************)
\* the call was made with a target that is an entity column
ShiftCalled ==
  /\ op = "analyze_alignment_shift"
  /\ args.target_country \in EntitiesOf(columns)

\* the positions of the rows of the first and of the second half
FirstRows ==
  LET start == to_datetime(args.start_date)
      end == to_datetime(args.end_date)
  IN  {i \in InRange(df, start, end) : 2 * df[i].Date < start + end}
SecondRows ==
  LET start == to_datetime(args.start_date)
      end == to_datetime(args.end_date)
  IN  {i \in InRange(df, start, end) : 2 * df[i].Date >= start + end}
\* comparable and agreeing votes of x with the target among the rows S
CountIn(S, x) == Cardinality(Comparable(df, args.target_country, x) \cap S)
AgreeIn(S, x) == Cardinality(Agreeing(df, args.target_country, x) \cap S)
\* x has a fraction in both halves and min_votes comparable votes in both
QualifiesForShift(x) ==
  /\ CountIn(FirstRows, x) > 0 /\ CountIn(SecondRows, x) > 0
  /\ CountIn(FirstRows, x) >= args.min_votes
  /\ CountIn(SecondRows, x) >= args.min_votes
ShiftQualifying ==
  {x \in EntitiesOf(columns) \ {args.target_country} : QualifiesForShift(x)}
\* second-half fraction minus first-half fraction of a qualifying x, as a
\* numerator over a positive denominator
ShiftOf(x) ==
  <<AgreeIn(SecondRows, x) * CountIn(FirstRows, x)
      - AgreeIn(FirstRows, x) * CountIn(SecondRows, x),
    CountIn(FirstRows, x) * CountIn(SecondRows, x)>>
FEq(p, q) == p[1] * q[2] = q[1] * p[2]

\* C7: for a target among the entity columns the call does not raise; it
\* reports an entity exactly when some entity has a fraction in both halves
\* and at least min_votes comparable votes in both; the entity reported is
\* such an entity, and the reported fractions and counts say so; when there
\* is none, the result is (None, None, 0, 0, 0, 0, 0).
C7_ShiftResultIffSomeEntityQualifies ==
  ShiftCalled =>
    LET q == ShiftQualifying IN
    /\ ~ret.raised
    /\ ret.country # None <=> q # {}
    /\ ret.country # None =>
         /\ ret.country \in q
         /\ ret.first_value # NoFraction /\ ret.second_value # NoFraction
         /\ ret.first_votes >= args.min_votes
         /\ ret.second_votes >= args.min_votes
         /\ ret.first_votes = CountIn(FirstRows, ret.country)
         /\ ret.second_votes = CountIn(SecondRows, ret.country)
    /\ q = {} =>
         /\ ret.country = None /\ ret.shift_direction = None
         /\ ret.shift = <<0, 1>>
         /\ ret.first_value = <<0, 1>> /\ ret.second_value = <<0, 1>>
         /\ ret.first_votes = 0 /\ ret.second_votes = 0

\* a call with min_votes >= 1 that reported an entity while another entity,
\* compared with the target in the first half only, was passed over
C7_Witness ==
  /\ ShiftCalled
  /\ args.min_votes >= 1
  /\ ret.country # None
  /\ \E x \in EntitiesOf(columns) \ {args.target_country, ret.country} :
       /\ CountIn(FirstRows, x) >= args.min_votes
       /\ CountIn(SecondRows, x) = 0

\* C2: when some entity qualifies, the call reports a qualifying entity whose
\* signed shift (second-half fraction minus first-half fraction) is largest
\* in absolute value among the qualifying entities: the largest signed shift
\* if its absolute value is at least that of the smallest signed shift (so
\* also when the two are equal), reported as "positive", and the smallest one
\* otherwise, reported as "negative"; the reported shift, fractions and
\* counts are those of the reported entity.
C2_BiggestShiftIsReported ==
  ShiftCalled =>
    LET q == ShiftQualifying
        c == ret.country
        sh == [x \in q |-> ShiftOf(x)]
        hi == CHOOSE x \in q : \A y \in q : ~FLess(sh[x], sh[y])
        lo == CHOOSE x \in q : \A y \in q : ~FLess(sh[y], sh[x])
    IN  q # {} =>
          /\ c \in q
          /\ \A y \in q : ~FLess(FAbs(sh[c]), FAbs(sh[y]))
          /\ IF ~FLess(FAbs(sh[hi]), FAbs(sh[lo]))
               THEN /\ FEq(sh[c], sh[hi])
                    /\ ret.shift_direction = "positive"
               ELSE /\ FEq(sh[c], sh[lo])
                    /\ ret.shift_direction = "negative"
          /\ ret.shift[2] > 0 /\ FEq(ret.shift, sh[c])
          /\ ret.first_value[2] > 0 /\ ret.second_value[2] > 0
          /\ FEq(ret.first_value,
                 <<AgreeIn(FirstRows, c), CountIn(FirstRows, c)>>)
          /\ FEq(ret.second_value,
                 <<AgreeIn(SecondRows, c), CountIn(SecondRows, c)>>)
          /\ ret.first_votes = CountIn(FirstRows, c)
          /\ ret.second_votes = CountIn(SecondRows, c)

\* a call in which one entity rose by as much as another fell, and the one
\* that rose was reported
C2_Witness ==
  /\ ShiftCalled
  /\ \E x, y \in ShiftQualifying :
       /\ ShiftOf(x)[1] > 0
       /\ ShiftOf(y)[1] < 0
       /\ FEq(FAbs(ShiftOf(x)), FAbs(ShiftOf(y)))
       /\ ret.country = x
       /\ ret.shift_direction = "positive"

(***************************************************************************)
(* Symmetry of compute_alignment, checked under AlignSpec.                 *)
(***************************************************************************)
\* C11: alignment is symmetric: what compute_alignment(T, A) reports for B,
\* fraction (None included) and count, is what compute_alignment(T, B)
\* reports for A, for every two distinct entity columns A and B.
C11_AlignmentIsSymmetric ==
  ComputeReturned =>
    LET a == args.target_country
    IN  \A b \in EntitiesOf(columns) \ {a} :
          LET back == compute_alignment(df, columns, b)
          IN  /\ ~back.raised
              /\ Get(back.percentages, a) = Get(ret.percentages, b)
              /\ Get(back.vote_counts, a) = Get(ret.vote_counts, b)

\* a call on a table in which the target missed a vote that another entity
\* cast, and the two were compared on the other row
C11_Witness ==
  /\ ComputeReturned
  /\ Len(df) = 2
  /\ \E b \in EntitiesOf(columns) \ {args.target_country} :
       /\ df[1].votes[args.target_country] = NaN
       /\ df[1].votes[b] # NaN
       /\ Get(ret.vote_counts, b) = 1
       /\ Get(ret.percentages, b) = <<1, 1>>

(***************************************************************************)
(* Properties of the calls of main taken together, checked under Spec.     *)
(***************************************************************************)
\* the result (None, None, 0, 0, 0, 0, 0) of analyze_alignment_shift
AbsentShift(r) ==
  /\ ~r.raised
  /\ r.country = None /\ r.shift_direction = None
  /\ r.shift = <<0, 1>>
  /\ r.first_value = <<0, 1>> /\ r.second_value = <<0, 1>>
  /\ r.first_votes = 0 /\ r.second_votes = 0
NoRanking(r) ==
  /\ r.allies = << >> /\ r.enemies = << >>
  /\ r.allies_pct = << >> /\ r.enemies_pct = << >>
  /\ r.allies_votes = << >> /\ r.enemies_votes = << >>

\* C12: when the window holds no row and the target is an entity column,
\* nothing downstream raises: compute_alignment on the filtered table returns
\* None and 0 for every other entity, find_top_allies_and_enemies on that
\* returns empty lists for every top_n and min_votes, and
\* analyze_alignment_shift, on the filtered table as on the whole one,
\* returns the absent result.
C12_EmptyWindowPropagates ==
  (op = "filter_time_period" /\ ret = << >>) =>
    \A e \in EntitiesOf(columns) :
      LET al == compute_alignment(ret, columns, e)
      IN  /\ ~al.raised
          /\ Range(Keys(al.percentages)) = EntitiesOf(columns) \ {e}
          /\ Range(Keys(al.vote_counts)) = EntitiesOf(columns) \ {e}
          /\ \A i \in DOMAIN al.percentages :
               al.percentages[i][2] = NoFraction /\ al.vote_counts[i][2] = 0
          /\ \A n \in 0 .. MaxTopN, m \in 0 .. MaxMinVotes :
               NoRanking(find_top_allies_and_enemies(al.percentages,
                                                     al.vote_counts, n, m))
          /\ \A m \in 0 .. MaxMinVotes :
               /\ AbsentShift(analyze_alignment_shift(
                    ret, columns, e, args.start_date, args.end_date, m))
               /\ AbsentShift(analyze_alignment_shift(
                    df, columns, e, args.start_date, args.end_date, m))

\* a window start <= end that holds none of the rows of a table in which
\* every entity voted
C12_Witness ==
  /\ op = "filter_time_period"
  /\ args.start_date <= args.end_date
  /\ ret = << >>
  /\ df # << >>
  /\ \A i \in DOMAIN df, x \in EntitiesOf(columns) : df[i].votes[x] # NaN

(***************************************************************************)
(* Order of tied entities in find_top_allies_and_enemies, under RankSpec.  *)
(***************************************************************************)
\* the place of an entity identifier in ascending identifier order
IdOf(x) == CHOOSE i \in DOMAIN EntityNames : EntityNames[i] = x
\* the dict d with its items in the key order o
Reordered(d, o) == [i \in DOMAIN o |-> <<o[i], Get(d, o[i])>>]

\* C13: the ranking does not depend on the key order of the maps: entities of
\* equal fraction stand in the sorted sequence in ascending identifier order,
\* and the same maps in any other key order give the same allies and enemies
\* lists.  (The code departs from this: its sort is stable, so entities of
\* equal fraction keep the key order of percentages.)
C13_RankingIsIndependentOfKeyOrder ==
  FindTopReturned =>
    /\ \A i, j \in DOMAIN ret.sorted_countries :
         (i < j /\ ret.sorted_countries[i][2] = ret.sorted_countries[j][2])
           => IdOf(ret.sorted_countries[i][1]) < IdOf(ret.sorted_countries[j][1])
    /\ \A o \in KeyOrders :
         LET other == find_top_allies_and_enemies(
                        Reordered(percentages, o), Reordered(vote_counts, o),
                        args.top_n, args.min_votes)
         IN  other.allies = ret.allies /\ other.enemies = ret.enemies

\* C14: no call, returning or raising, changes what it was passed: across
\* every step of every sequence of calls the table keeps its rows, their
\* order, its columns and its votes, and the two alignment maps keep their
\* items.
C14_CallsLeaveTheirInputsUnchanged ==
  [][/\ df' = df
     /\ columns' = columns
     /\ percentages' = percentages
     /\ vote_counts' = vote_counts]_vars

\* a filter call returned one of the two rows of the table, and the table
\* and the maps computed from it are as they were
C14_Witness ==
  /\ op = "filter_time_period"
  /\ Len(df) = 2
  /\ Len(ret) = 1
  /\ \A i \in DOMAIN df : df[i].idx = i
  /\ percentages = compute_alignment(df, columns, EntityNames[1]).percentages
  /\ vote_counts = compute_alignment(df, columns, EntityNames[1]).vote_counts

(***************************************************************************)
(* Idempotence of filter_time_period, checked under DateSpec.              *)
(***************************************************************************)
\* C15: filter_time_period is idempotent: filtering the returned table again
\* with the same bounds returns the same rows in the same order.
C15_FilterIsIdempotent ==
  op = "filter_time_period" =>
    filter_time_period(ret, args.start_date, args.end_date) = ret

\* a call that kept two rows and dropped an earlier one
C15_Witness ==
  /\ op = "filter_time_period"
  /\ Len(df) = 3
  /\ Len(ret) = 2
  /\ df[2].Date < to_datetime(args.start_date)
  /\ ret = <<df[1], df[3]>>

(***************************************************************************)
(* Properties of load_data, checked under LoadSpec.                        *)
(***************************************************************************)
\* C16: the table load_data returns holds exactly the rows of the input whose
\* 'Date' parses, in input order, each with its label, its votes over the
\* same columns and its date; every returned row has a date; a row whose
\* 'Date' does not parse is left out and a row whose 'Date' parses is not.
C16_LoadKeepsExactlyTheDatedRows ==
  op = "load_data" =>
    LET P == {i \in DOMAIN df : df[i].Date.parses}
    IN  /\ Len(ret) = Cardinality(P)
        /\ \A j \in DOMAIN ret :
             /\ \E k \in P :
                  /\ Cardinality({i \in P : i <= k}) = j
                  /\ ret[j].idx = df[k].idx
                  /\ ret[j].votes = df[k].votes
                  /\ ret[j].Date = df[k].Date.day * TicksPerDay
             /\ ret[j].Date # NaT
             /\ ret[j].Date >= 0
             /\ DOMAIN ret[j].votes = EntitiesOf(columns)
        /\ \A i \in DOMAIN df :
             (\E j \in DOMAIN ret : ret[j].idx = df[i].idx) <=> df[i].Date.parses

\* a load of three rows, the middle one with a 'Date' that is no date, that
\* returned the first and the third
C16_Witness ==
  /\ op = "load_data"
  /\ Len(df) = 3
  /\ df[1].Date.parses /\ ~df[2].Date.parses /\ df[3].Date.parses
  /\ Len(ret) = 2
  /\ ret[1].idx = 1 /\ ret[2].idx = 3

\* C17: the direction a shift result reports agrees with the sign of the
\* shift it reports: "positive" only with a shift >= 0, "negative" only with
\* a shift < 0.
C17_DirectionAgreesWithSign ==
  (ShiftCalled /\ ~ret.raised /\ ret.country # None) =>
    /\ ret.shift_direction = "positive" => ret.shift[1] >= 0
    /\ ret.shift_direction = "negative" => ret.shift[1] < 0

(***************************************************************************)
(* The shift analysis on the whole table and on the filtered table,        *)
(* checked under WindowSpec.                                               *)
(***************************************************************************)
\* C18: analyze_alignment_shift returns the same on the whole table as on the
\* table filter_time_period leaves for the same period: what the call on the
\* whole table returned is what the call on the filtered table returns, and
\* what the dashboard's call on the filtered table returned is what the call
\* on the whole table returns.
C18_ShiftIsTheSameOnTheFilteredTable ==
  LET t == args.target_country
      s == args.start_date
      e == args.end_date
      m == args.min_votes
  IN  /\ op = "analyze_alignment_shift" =>
           ret = analyze_alignment_shift(filter_time_period(df, s, e),
                                         columns, t, s, e, m)
      /\ op = "dashboard_shift" =>
           ret = analyze_alignment_shift(df, columns, t, s, e, m)

\* a call on a whole table of three days for a period that leaves the first
\* day out, which reported an entity and a shift that is not zero
C18_Witness ==
  /\ op = "analyze_alignment_shift"
  /\ Len(df) = 3
  /\ to_datetime(args.start_date) > df[1].Date
  /\ Len(filter_time_period(df, args.start_date, args.end_date)) = 2
  /\ ~ret.raised
  /\ ret.country # None
  /\ ret.shift[1] # 0

====
